---- MODULE Spec2Model ----
(***************************************************************************)
(* Model of the mixing policy of Compression-cost-optimization:           *)
(*   src/src/algorithms.rs     AlgorithmMetrics and its ordering           *)
(*   src/src/convex_hull.rs    convex_hull_graham                          *)
(*   src/src/mixing_policy.rs  MixingPolicy (hull, query, executor)        *)
(*                             MixingPolicyMultipleWorkloads (joint plan)  *)
(*   src/src/algorithms/gzip.rs  Gzip::execute_with_target                 *)
(*                                                                         *)
(* Durations and sizes are integers (Duration is a whole number of         *)
(* nanoseconds, ByteSize is u64).  f64 values that the code computes from  *)
(* them are kept exactly, as fractions; the values of the model are small  *)
(* enough that every f64 operation of the code on them is exact, except    *)
(* where a rounding is modelled explicitly (WrappedAsF64).                 *)
(***************************************************************************)
EXTENDS Integers, Sequences, FiniteSets, TLC

(* ---------------- bounds of the model ---------------- *)
MaxTime == 4
MaxSize == 4
MaxLen == 4
MaxBudget == 5
MaxDataLen == 2

(* ---------------- AlgorithmMetrics (algorithms.rs) ---------------- *)

\* struct AlgorithmMetrics: the two fields the planner reads.
AlgorithmMetrics(t, s) == [time_required |-> t, compressed_size |-> s]

\* impl PartialOrd / Ord: ascending duration, then descending size.
\* TRUE iff a.cmp(b) == Less.
partial_cmp_Less(a, b) ==
    IF a.time_required = b.time_required
    THEN b.compressed_size < a.compressed_size
    ELSE a.time_required < b.time_required

\* impl PartialEq: componentwise on size and duration.
eq(a, b) ==
    /\ a.compressed_size = b.compressed_size
    /\ a.time_required = b.time_required

\* impl Point: x = duration, y = size.
x(m) == m.time_required
y(m) == m.compressed_size

(* ---------------- sequence helpers ---------------- *)

Last(s) == s[Len(s)]

\* slice::windows(n): the start indices of the windows of length n.
windows(s, n) == 1..(Len(s) - n + 1)

\* Vec::sort (stable): insertion keeps an element after every element not
\* greater than it.
RECURSIVE InsertSorted(_, _)
InsertSorted(s, m) ==
    IF s = <<>> THEN <<m>>
    ELSE IF partial_cmp_Less(m, Head(s)) THEN <<m>> \o s
    ELSE <<Head(s)>> \o InsertSorted(Tail(s), m)

RECURSIVE sort(_)
sort(s) ==
    IF s = <<>> THEN <<>>
    ELSE InsertSorted(sort(SubSeq(s, 1, Len(s) - 1)), Last(s))

(* ---------------- convex_hull.rs ---------------- *)

\* calc_z_coord_vector_product: z of ab x ac.
calc_z_coord_vector_product(a, b, c) ==
    (x(b) - x(a)) * (y(c) - y(a)) - (x(c) - x(a)) * (y(b) - y(a))

\* min_by of convex_hull_graham: smallest y, then smallest x; Iterator::min_by
\* returns the first of several equal minima.
RECURSIVE PivotFrom(_, _, _)
PivotFrom(pts, i, best) ==
    IF i > Len(pts) THEN best
    ELSE LET p == pts[i]
             less == \/ y(p) < y(best)
                     \/ (y(p) = y(best) /\ x(p) < x(best))
         IN PivotFrom(pts, i + 1, IF less THEN p ELSE best)

Pivot(pts) == PivotFrom(pts, 2, pts[1])

\* The sort key of sort_by_min_angle is (atan2(dy, dx), hypot(dy, dx), point).
\* Every point has dy >= 0, and dx >= 0 when dy = 0 (the pivot has the least
\* y, and the least x among those), so the angle lies in [0, pi) and two
\* angles compare as the cross product of the two vectors does; atan2(0, 0)
\* is 0, the angle of the positive x axis.
AngleLess(min, a, b) ==
    LET ax == x(a) - x(min)  ay == y(a) - y(min)
        bx == x(b) - x(min)  by == y(b) - y(min)
    IN IF ay = 0 THEN by > 0
       ELSE by > 0 /\ ax * by - bx * ay > 0

AngleEq(min, a, b) == ~AngleLess(min, a, b) /\ ~AngleLess(min, b, a)

\* hypot compares as the squared distance does.
Hypot2(min, a) ==
    (x(a) - x(min)) * (x(a) - x(min)) + (y(a) - y(min)) * (y(a) - y(min))

\* a.partial_cmp(b) == Less on the (angle, distance, point) tuples; two
\* points with the same angle and distance are the same point.
KeyLess(min, a, b) ==
    \/ AngleLess(min, a, b)
    \/ /\ AngleEq(min, a, b)
       /\ \/ Hypot2(min, a) < Hypot2(min, b)
          \/ (Hypot2(min, a) = Hypot2(min, b) /\ partial_cmp_Less(a, b))

RECURSIVE InsertByAngle(_, _, _)
InsertByAngle(min, s, p) ==
    IF s = <<>> THEN <<p>>
    ELSE IF KeyLess(min, p, Head(s)) THEN <<p>> \o s
    ELSE <<Head(s)>> \o InsertByAngle(min, Tail(s), p)

\* sort_by_min_angle: stable sort_by on the keys.
RECURSIVE sort_by_min_angle(_, _)
sort_by_min_angle(pts, min) ==
    IF pts = <<>> THEN <<>>
    ELSE InsertByAngle(min, sort_by_min_angle(SubSeq(pts, 1, Len(pts) - 1), min),
                       Last(pts))

\* The while loop of the scan: pop while the turn is clockwise.
RECURSIVE PopRightTurns(_, _)
PopRightTurns(stack, point) ==
    IF /\ Len(stack) > 1
       /\ calc_z_coord_vector_product(stack[Len(stack) - 1], stack[Len(stack)],
                                      point) < 0
    THEN PopRightTurns(SubSeq(stack, 1, Len(stack) - 1), point)
    ELSE stack

\* The for loop of the scan.
RECURSIVE Scan(_, _, _)
Scan(points, i, stack) ==
    IF i > Len(points) THEN stack
    ELSE Scan(points, i + 1, Append(PopRightTurns(stack, points[i]), points[i]))

convex_hull_graham(pts) ==
    IF pts = <<>> THEN <<>>
    ELSE LET points == sort_by_min_angle(pts, Pivot(pts))
         IN IF Len(points) <= 3 THEN points
            ELSE Scan(points, 1, <<>>)

(* ---------------- f64 values built from integers ---------------- *)

\* u64 arithmetic wraps at 2^64 in a release build; a value v of the model
\* with a wrapped part is kept as wrap * 2^64 + num.
\* (d: u64 = 2^64 - d) as f64: f64 has 53 bits, so just below 2^64 it holds
\* only multiples of 2^11; the cast rounds to the nearest, ties to even.
F64Step == 2048

RoundHalfEven(n, d) ==
    LET q == n \div d
        r == n % d
    IN IF 2 * r < d THEN q
       ELSE IF 2 * r > d THEN q + 1
       ELSE IF q % 2 = 0 THEN q ELSE q + 1

\* (2^64 - d) as f64, for 0 < d, as [wrap, num].
WrappedAsF64(d) == [wrap |-> 1, num |-> 0 - F64Step * RoundHalfEven(d, F64Step)]

\* An f64 quotient (wrap * 2^64 + num) / den.  den = 0 gives an infinity, or
\* NaN for 0 / 0.
F64Quot(wrap, num, den) == [wrap |-> wrap, num |-> num, den |-> den]

IsNaN(b) == b.den = 0 /\ b.wrap = 0 /\ b.num = 0
IsInfinite(b) == b.den = 0 /\ ~IsNaN(b)
IsFinite(b) == b.den # 0

\* Sign of the numerator wrap * 2^64 + num (|num| < 2^64).
NumSign(b) ==
    IF b.wrap > 0 THEN 1
    ELSE IF b.wrap < 0 THEN 0 - 1
    ELSE IF b.num > 0 THEN 1
    ELSE IF b.num < 0 THEN 0 - 1 ELSE 0

DenSign(b) == IF b.den > 0 THEN 1 ELSE IF b.den < 0 THEN 0 - 1 ELSE 0

\* a < b on f64 (false whenever one side is NaN).  Dividing by 0.0 (never
\* -0.0 here: the divisor is a difference of two f64) gives +inf or -inf by
\* the sign of the numerator.
F64Less(a, b) ==
    IF IsNaN(a) \/ IsNaN(b) THEN FALSE
    ELSE IF IsInfinite(a) \/ IsInfinite(b) THEN
        LET ra == IF IsInfinite(a) THEN 2 * NumSign(a) ELSE 0
            rb == IF IsInfinite(b) THEN 2 * NumSign(b) ELSE 0
        IN ra < rb
    ELSE
        \* both finite: compare a.n * b.d with b.n * a.d, signs of the
        \* denominators taken out; the 2^64 parts first.
        LET sa == DenSign(a)  sb == DenSign(b)
            hi == sa * sb * (a.wrap * b.den - b.wrap * a.den)
            lo == sa * sb * (a.num * b.den - b.num * a.den)
        IN hi < 0 \/ (hi = 0 /\ lo < 0)

F64Zero == F64Quot(0, 0, 1)

\* 0.0 <= b
F64NonNegative(b) == ~IsNaN(b) /\ ~F64Less(b, F64Zero)

(* ---------------- MixingPolicy::build_polygonal_chain ---------------- *)

\* The filter over windows(3), lines 203-206: the middle of window i.
KeepMiddle(am, i) ==
    ~(\/ am[i + 1].compressed_size >= am[i].compressed_size
      \/ am[i + 1].time_required = am[i + 2].time_required)

RECURSIVE WindowFilter(_, _)
WindowFilter(am, i) ==
    IF i \notin windows(am, 3) THEN <<>>
    ELSE (IF KeepMiddle(am, i) THEN <<am[i + 1]>> ELSE <<>>)
         \o WindowFilter(am, i + 1)

\* lines 210-224: windows(2).last(), kept on a strictly smaller size.
last_algorithm(am) ==
    IF Len(am) < 2 THEN <<>>
    ELSE IF ~(am[Len(am)].compressed_size >= am[Len(am) - 1].compressed_size)
         THEN <<am[Len(am)]>>
         ELSE <<>>

\* lines 227-235: first, then the filtered middles, then the last.
polygonal_chain(am) == <<am[1]>> \o WindowFilter(am, 1) \o last_algorithm(am)

\* lines 243-246: Iterator::min_by returns the first minimum.
RECURSIVE MinByTime(_, _, _)
MinByTime(hull, i, best) ==
    IF i > Len(hull) THEN best
    ELSE MinByTime(hull, i + 1,
                   IF hull[i].time_required < best.time_required
                   THEN hull[i] ELSE best)

min_metric(hull) == MinByTime(hull, 2, hull[1])

\* lines 247-250: Iterator::max_by returns the last maximum.
RECURSIVE MaxByTime(_, _, _)
MaxByTime(hull, i, best) ==
    IF i > Len(hull) THEN best
    ELSE MaxByTime(hull, i + 1,
                   IF hull[i].time_required >= best.time_required
                   THEN hull[i] ELSE best)

max_metric(hull) == MaxByTime(hull, 2, hull[1])

\* lines 253-270: the loop over convex_hull.iter().cycle().  k counts the
\* elements visited; found is min_found.
RECURSIVE CycleLoop(_, _, _, _, _, _)
CycleLoop(hull, k, found, acc, mn, mx) ==
    LET el == hull[((k - 1) % Len(hull)) + 1]
    IN IF ~found
       THEN IF eq(el, mn)
            THEN CycleLoop(hull, k + 1, TRUE, Append(acc, el), mn, mx)
            ELSE CycleLoop(hull, k + 1, FALSE, acc, mn, mx)
       ELSE IF eq(el, mx)
            THEN Append(acc, el)
            ELSE CycleLoop(hull, k + 1, TRUE, Append(acc, el), mn, mx)

lower_convex_hull_of(convex_hull) ==
    CycleLoop(convex_hull, 1, FALSE, <<>>,
              min_metric(convex_hull), max_metric(convex_hull))

\* lines 280-281: (prev.compressed_size - curr.compressed_size) as f64
\*                / (curr.time_required - prev.time_required), the
\* subtraction in u64, wrapping (release build).
benefit(prev, curr) ==
    LET dt == curr.time_required - prev.time_required
        ds == prev.compressed_size - curr.compressed_size
    IN IF ds >= 0 THEN F64Quot(0, ds, dt)
       ELSE LET w == WrappedAsF64(0 - ds) IN F64Quot(w.wrap, w.num, dt)

\* lines 273-284.
hull_with_benefits(lch) ==
    [i \in 1..Len(lch) |->
        [m |-> lch[i],
         benefit |-> IF i = 1 THEN F64Zero ELSE benefit(lch[i - 1], lch[i])]]

\* The u64 subtraction of line 280 overflows: a panic in a debug build.
SubtractOverflows(lch) ==
    \E i \in windows(lch, 2) : lch[i].compressed_size < lch[i + 1].compressed_size

\* The hull points in order, up to the benefits (lines 200-271).
lower_hull_points(algorithm_metrics) ==
    lower_convex_hull_of(convex_hull_graham(polygonal_chain(sort(algorithm_metrics))))

build_polygonal_chain(algorithm_metrics) ==
    hull_with_benefits(lower_hull_points(algorithm_metrics))

(* ---------------- MixingPolicy::optimal_mix ---------------- *)

\* f64::round: half away from zero, of n / d with n >= 0 and d > 0.
RoundHalfAway(n, d) == (2 * n + d) \div (2 * d)

\* lines 301-304: the fraction, kept in hundredths; 0.0 / 0.0 is NaN, and
\* NaN stays NaN through * 100., round() and / 100.
fraction_of(time_budget, cheap_alg, expensive_alg) ==
    LET n == time_budget - cheap_alg.time_required
        d == expensive_alg.time_required - cheap_alg.time_required
    IN IF d = 0 /\ n = 0 THEN [nan |-> TRUE, hundredths |-> 0]
       ELSE [nan |-> FALSE, hundredths |-> RoundHalfAway(100 * n, d)]

\* The predicate of find with the lower comparison strict.
InMixGroup_StrictLower(hull, i, time_budget) ==
    /\ time_budget > hull[i].m.time_required
    /\ time_budget <= hull[i + 1].m.time_required

\* lines 292-297: the predicate of find.
InMixGroup(hull, i, time_budget) ==
    /\ time_budget >= hull[i].m.time_required
    /\ time_budget <= hull[i + 1].m.time_required

NoMix == [kind |-> "None"]
Single(m) == [kind |-> "Single", metrics |-> m]
Normal(expensive, cheap, fraction) ==
    [kind |-> "Normal", metric_a |-> expensive, metric_b |-> cheap,
     fraction |-> fraction]

\* lines 288-324.  find returns the first window that matches.
optimal_mix(hull, time_budget) ==
    LET found == {i \in windows(hull, 2) : InMixGroup(hull, i, time_budget)}
    IN IF found # {}
       THEN LET i == CHOOSE j \in found : \A k \in found : j <= k
                expensive_alg == hull[i + 1].m
                cheap_alg == hull[i].m
            IN Normal(expensive_alg, cheap_alg,
                      fraction_of(time_budget, cheap_alg, expensive_alg))
       ELSE LET most_expensive_algorithm == Last(hull).m
            IN IF most_expensive_algorithm.time_required < time_budget
               THEN Single(most_expensive_algorithm)
               ELSE NoMix

(* ---------------- MixingPolicy::apply_optimal_mix ---------------- *)

\* The partition with exact halves rounded to the even integer.
workload_partition_HalfEven(data_len, fraction) ==
    IF fraction.nan THEN 0
    ELSE RoundHalfEven(data_len * fraction.hundredths, 100)

\* line 333: ((len as f64) * fraction).round() as usize; NaN casts to 0.
\* f64::round rounds halves away from zero.  The product is taken exactly
\* here: for every len below 25 and every fraction in hundredths the f64
\* product rounds to the same integer as the exact one (from len = 25 on it
\* need not: 25 * 0.58 is 14.499999999999998 in f64).
workload_partition(data_len, fraction) ==
    IF fraction.nan THEN 0
    ELSE RoundHalfAway(data_len * fraction.hundredths, 100)

\* One compressed stream in the result file: the codec that wrote it and the
\* input bytes [lo, hi) it read.
Stream(m, lo, hi) == [algorithm |-> m, lo |-> lo, hi |-> hi]

\* Gzip::execute (gzip.rs 80-99): reads data_len bytes from the read
\* position of the input file, appends one stream, rewinds.
execute(m, w) ==
    [w EXCEPT !.result_file = Append(@, Stream(m, w.data_pos, w.data_pos + w.data_len)),
              !.data_pos = 0]

\* execute_with_target without the seek of the second half: both halves
\* read from the read position.
execute_with_target_NoSeek(m, w, partition, first_half) ==
    LET start == w.data_pos
        count == IF first_half THEN partition ELSE w.data_len - partition
    IN [w EXCEPT !.result_file = Append(@, Stream(m, start, start + count)),
                 !.data_pos = 0]

\* Gzip::execute_with_target (gzip.rs 125-150): the first half reads
\* partition bytes from the read position; the second half seeks to
\* partition and reads to the end; both append one stream and rewind.
execute_with_target(m, w, partition, first_half) ==
    LET start == IF first_half THEN w.data_pos ELSE partition
        count == IF first_half THEN partition ELSE w.data_len - partition
    IN [w EXCEPT !.result_file = Append(@, Stream(m, start, start + count)),
                 !.data_pos = 0]

\* apply_optimal_mix with the two codecs of a split exchanged.
apply_optimal_mix_CheapFirst(mix, w) ==
    IF mix.kind = "Single" THEN execute(mix.metrics, w)
    ELSE LET partition == workload_partition(w.data_len, mix.fraction)
         IN execute_with_target(mix.metric_a,
                execute_with_target(mix.metric_b, w, partition, TRUE),
                partition, FALSE)

\* lines 326-343.
apply_optimal_mix(mix, w) ==
    IF mix.kind = "Single" THEN execute(mix.metrics, w)
    ELSE LET partition == workload_partition(w.data_len, mix.fraction)
         IN execute_with_target(mix.metric_b,
                execute_with_target(mix.metric_a, w, partition, TRUE),
                partition, FALSE)

(* ---------------- MixingPolicyMultipleWorkloads::new ---------------- *)

\* a == b on f64: false whenever one side is NaN.
F64Eq(a, b) ==
    /\ ~IsNaN(a)
    /\ ~IsNaN(b)
    /\ ~F64Less(a, b)
    /\ ~F64Less(b, a)

\* The rank of the class of an f64 in f64::total_cmp: negative NaN, -inf,
\* the finite values, +inf, positive NaN.  nan_sign is the sign bit of the
\* NaN that 0.0 / 0.0 produced, which Rust leaves unspecified.
TotalClass(a, nan_sign) ==
    IF IsNaN(a) THEN 3 * nan_sign
    ELSE IF IsInfinite(a) THEN 2 * NumSign(a)
    ELSE 0

\* The sign of a zero quotient: that of the divisor (the dividend is +0.0).
IsNegativeZero(a) == IsFinite(a) /\ NumSign(a) = 0 /\ a.den < 0
IsPositiveZero(a) == IsFinite(a) /\ NumSign(a) = 0 /\ a.den > 0

\* a.total_cmp(b) == Less.
TotalLess(a, b, nan_sign) ==
    \/ TotalClass(a, nan_sign) < TotalClass(b, nan_sign)
    \/ /\ IsFinite(a)
       /\ IsFinite(b)
       /\ \/ F64Less(a, b)
          \/ (IsNegativeZero(a) /\ IsPositiveZero(b))

\* max_by returning the first of several equal maxima.
RECURSIVE MaxByBenefit_First(_, _, _, _)
MaxByBenefit_First(lchs, i, best, nan_sign) ==
    IF i > Len(lchs) THEN best
    ELSE IF lchs[i] = <<>> THEN MaxByBenefit_First(lchs, i + 1, best, nan_sign)
    ELSE IF best = 0 THEN MaxByBenefit_First(lchs, i + 1, i, nan_sign)
    ELSE IF TotalLess(lchs[best][1].benefit, lchs[i][1].benefit, nan_sign)
         THEN MaxByBenefit_First(lchs, i + 1, i, nan_sign)
         ELSE MaxByBenefit_First(lchs, i + 1, best, nan_sign)

\* lines 47-53: the index of the document whose next setup has the highest
\* benefit, over the documents with setups left; Iterator::max_by returns
\* the last of several equal maxima.
RECURSIVE MaxByBenefit(_, _, _, _)
MaxByBenefit(lchs, i, best, nan_sign) ==
    IF i > Len(lchs) THEN best
    ELSE IF lchs[i] = <<>> THEN MaxByBenefit(lchs, i + 1, best, nan_sign)
    ELSE IF best = 0 THEN MaxByBenefit(lchs, i + 1, i, nan_sign)
    ELSE IF TotalLess(lchs[i][1].benefit, lchs[best][1].benefit, nan_sign)
         THEN MaxByBenefit(lchs, i + 1, best, nan_sign)
         ELSE MaxByBenefit(lchs, i + 1, i, nan_sign)

\* lines 59-60 (and 87-111): the folds over a combination.
RECURSIVE SumTime(_)
SumTime(combination) ==
    IF combination = <<>> THEN 0
    ELSE combination[1].m.time_required + SumTime(Tail(combination))

RECURSIVE SumSize(_)
SumSize(combination) ==
    IF combination = <<>> THEN 0
    ELSE combination[1].m.compressed_size + SumSize(Tail(combination))

\* line 61: (previous_complessive_size - combination_size) as f64
\*          / (combination_time - previous_complessive_time), the
\* subtraction in u64, wrapping (release build).
combination_benefit(previous_size, previous_time, combination_size, combination_time) ==
    LET ds == previous_size - combination_size
        dt == combination_time - previous_time
    IN IF ds >= 0 THEN F64Quot(0, ds, dt)
       ELSE LET w == WrappedAsF64(0 - ds) IN F64Quot(w.wrap, w.num, dt)

\* One entry of setup_combinations: the setups of the documents, the
\* benefit, and the document the entry advanced (0 for "initial").
Combination(setups, combination_b, variation) ==
    [setups |-> setups, benefit |-> combination_b, variation |-> variation]

\* lines 45-69: the while loop.
RECURSIVE MergeLoop(_, _, _, _, _, _)
MergeLoop(workload_lchs_by_benefit, current_combination, previous_complessive_size, previous_complessive_time, setup_combinations, nan_sign) ==
    IF \A i \in DOMAIN workload_lchs_by_benefit :
           workload_lchs_by_benefit[i] = <<>>
    THEN setup_combinations
    ELSE LET index == MaxByBenefit(workload_lchs_by_benefit, 1, 0, nan_sign)
             highest_benefit_setup == workload_lchs_by_benefit[index][1]
             lchs == [workload_lchs_by_benefit EXCEPT ![index] = Tail(@)]
             combination == [current_combination EXCEPT
                                ![index] = highest_benefit_setup]
             combination_time == SumTime(combination)
             combination_size == SumSize(combination)
         IN MergeLoop(lchs, combination, combination_size, combination_time,
                Append(setup_combinations,
                       Combination(combination,
                           combination_benefit(previous_complessive_size,
                               previous_complessive_time,
                               combination_size, combination_time),
                           index)),
                nan_sign)

\* lines 20-75, from the hulls of the documents (raw_workload_lchs).
setup_combinations_of(raw_workload_lchs, nan_sign) ==
    LET current_combination ==
            [i \in DOMAIN raw_workload_lchs |-> raw_workload_lchs[i][1]]
        workload_lchs_by_benefit ==
            [i \in DOMAIN raw_workload_lchs |-> Tail(raw_workload_lchs[i])]
    IN MergeLoop(workload_lchs_by_benefit, current_combination, 0, 0,
                 <<Combination(current_combination, F64Zero, 0)>>, nan_sign)

\* The u64 subtraction of line 61 overflows: a panic in a debug build.  The
\* first subtraction is 0 - combination_size.
CombinationSubtractOverflows(setup_combinations) ==
    \E i \in windows(setup_combinations, 2) :
        (IF i = 1 THEN 0 ELSE SumSize(setup_combinations[i].setups))
            < SumSize(setup_combinations[i + 1].setups)

(* -------- MixingPolicyMultipleWorkloads::mix_with_total_time_budget -------- *)

\* impl PartialEq of the tuple (&AlgorithmMetrics, f64), line 118.
SetupEq(a, b) == eq(a.m, b.m) /\ F64Eq(a.benefit, b.benefit)

\* lines 97-100: the predicate of find.
InCombinationGroup(combinations, i, total_time_budget) ==
    /\ total_time_budget >= SumTime(combinations[i].setups)
    /\ total_time_budget < SumTime(combinations[i + 1].setups)

\* lines 121-123: the fraction, in hundredths (the divisor is positive
\* inside the group the predicate found).
combination_fraction(total_time_budget, cheap_total_required_time, expensive_total_required_time) ==
    LET n == total_time_budget - cheap_total_required_time
        d == expensive_total_required_time - cheap_total_required_time
    IN IF d = 0 /\ n = 0 THEN [nan |-> TRUE, hundredths |-> 0]
       ELSE [nan |-> FALSE, hundredths |-> RoundHalfAway(100 * n, d)]

NoMixes == <<NoMix>>

\* lines 80-153.  The result is the Vec of mixes, or NoMixes for None.
mix_with_total_time_budget(combinations, total_time_budget) ==
    LET found == {i \in windows(combinations, 2) :
                    InCombinationGroup(combinations, i, total_time_budget)}
    IN IF found # {}
       THEN LET i == CHOOSE j \in found : \A k \in found : j <= k
                expensive_combination == combinations[i + 1].setups
                cheap_combination == combinations[i].setups
                fraction == combination_fraction(total_time_budget,
                                SumTime(cheap_combination),
                                SumTime(expensive_combination))
            IN [d \in DOMAIN cheap_combination |->
                   IF SetupEq(cheap_combination[d], expensive_combination[d])
                   THEN Single(cheap_combination[d].m)
                   ELSE Normal(expensive_combination[d].m,
                               cheap_combination[d].m, fraction)]
       ELSE LET most_expensive_combination == Last(combinations).setups
            IN IF SumTime(most_expensive_combination) < total_time_budget
               THEN [d \in DOMAIN most_expensive_combination |->
                        Single(most_expensive_combination[d].m)]
               ELSE NoMixes

(* ---------------- the state machine ---------------- *)

VARIABLES
    algorithm_metrics,  \* the measurements handed to MixingPolicy::new
    lower_convex_hull,  \* MixingPolicy.lower_convex_hull
    workload,           \* Workload: budget, input file, result file
    mix,                \* the Option<OptimalMix> optimal_mix returned
    pc,                 \* "new", "built", "panicked", "queried", "applied",
                        \* and the same with "_multiple" for the joint planner
    workloads_metrics,  \* the measurements handed to
                        \* MixingPolicyMultipleWorkloads::new, per document
    setup_combinations, \* MixingPolicyMultipleWorkloads.lower_convex_hull
    lower_convex_hull_per_workload,
    total_time_budget,  \* the budget of mix_with_total_time_budget
    optimal_mixes       \* the Option<Vec<OptimalMix>> it returned

single_vars == <<algorithm_metrics, lower_convex_hull, workload, mix>>

multiple_vars ==
    <<workloads_metrics, setup_combinations, lower_convex_hull_per_workload,
      total_time_budget, optimal_mixes>>

vars == <<single_vars, multiple_vars, pc>>

Points == {AlgorithmMetrics(t, s) : t \in 1..MaxTime, s \in 1..MaxSize}

Rank(m) == m.time_required * (MaxSize + 1) + m.compressed_size

\* The measurement lists of length n, one order per multiset: sort makes
\* the order of the list immaterial, and this order (descending duration) is
\* not the one sort produces.
RECURSIVE ListsOfLen(_)
ListsOfLen(n) ==
    IF n = 0 THEN {<<>>}
    ELSE {Append(e[1], e[2]) :
            e \in {d \in ListsOfLen(n - 1) \X Points :
                      d[1] = <<>> \/ Rank(Last(d[1])) >= Rank(d[2])}}

\* tests::paper_polygonal_chain, lines 396-403.
paper_metrics ==
    << AlgorithmMetrics(2, 1000000), AlgorithmMetrics(4, 800000),
       AlgorithmMetrics(6, 600000), AlgorithmMetrics(7, 580000),
       AlgorithmMetrics(8, 400000), AlgorithmMetrics(10, 300000) >>

\* The first measurement of the test alone.
single_metrics == << AlgorithmMetrics(2, 1000000) >>

\* The measurement lists MixingPolicy::new is called with: none, the test's
\* two, and every list of 1..MaxLen grid points.
IsMetricList(l) ==
    \/ l \in {<<>>, paper_metrics, single_metrics}
    \/ \E n \in 1..MaxLen : l \in ListsOfLen(n)

\* The budgets of the queries: the small ones, and those around the
\* durations of the test's measurements.
Budgets == 0..MaxBudget \cup {7, 10, 11}

\* Workload::new (workload.rs 14-18): the input file at read position 0, an
\* empty result file.  data_len is the length of the input file as
\* apply_optimal_mix reads it from the file's metadata.
NewWorkload ==
    [data_len |-> 0, data_pos |-> 0, time_budget |-> 0, result_file |-> <<>>]

Init ==
    /\ IsMetricList(algorithm_metrics)
    /\ lower_convex_hull = <<>>
    /\ workload = NewWorkload
    /\ mix = NoMix
    /\ pc = "new"
    /\ workloads_metrics = <<>>
    /\ setup_combinations = <<>>
    /\ lower_convex_hull_per_workload = <<>>
    /\ total_time_budget = 0
    /\ optimal_mixes = NoMixes

\* MixingPolicy::new without the check of lines 194-196: an empty list gives
\* an empty hull.
New_NoEmptyCheck ==
    /\ pc = "new"
    /\ IF Len(algorithm_metrics) < 1
       THEN /\ pc' = "built"
            /\ lower_convex_hull' = <<>>
       ELSE LET lch == lower_hull_points(algorithm_metrics)
            IN \/ /\ SubtractOverflows(lch)
                  /\ pc' = "panicked"
                  /\ lower_convex_hull' = <<>>
               \/ /\ pc' = "built"
                  /\ lower_convex_hull' = hull_with_benefits(lch)
    /\ UNCHANGED <<algorithm_metrics, workload, mix>>
    /\ UNCHANGED multiple_vars

\* MixingPolicy::new.  build_polygonal_chain panics on an empty list (lines
\* 194-196).  The u64 subtraction of line 280 panics on overflow in a build
\* with overflow checks and wraps in one without.
New ==
    /\ pc = "new"
    /\ IF Len(algorithm_metrics) < 1
       THEN /\ pc' = "panicked"
            /\ lower_convex_hull' = <<>>
       ELSE LET lch == lower_hull_points(algorithm_metrics)
            IN \/ /\ SubtractOverflows(lch)
                  /\ pc' = "panicked"
                  /\ lower_convex_hull' = <<>>
               \/ /\ pc' = "built"
                  /\ lower_convex_hull' = hull_with_benefits(lch)
    /\ UNCHANGED <<algorithm_metrics, workload, mix>>
    /\ UNCHANGED multiple_vars

\* mixing_policy.optimal_mix(&workload), the budget being the workload's.
Query ==
    /\ pc = "built"
    /\ \E time_budget \in Budgets :
        /\ workload' = [workload EXCEPT !.time_budget = time_budget]
        /\ mix' = optimal_mix(lower_convex_hull, time_budget)
    /\ pc' = "queried"
    /\ UNCHANGED <<algorithm_metrics, lower_convex_hull>>
    /\ UNCHANGED multiple_vars

\* MixingPolicy::apply_optimal_mix(&optimal_mix, &mut workload), called on
\* Some(optimal_mix) only (lib.rs 31-35), on an input file of any length.
Apply ==
    /\ pc = "queried"
    /\ mix.kind # "None"
    /\ \E len \in 0..MaxDataLen :
        workload' = apply_optimal_mix(mix, [workload EXCEPT !.data_len = len])
    /\ pc' = "applied"
    /\ UNCHANGED <<algorithm_metrics, lower_convex_hull, mix>>
    /\ UNCHANGED multiple_vars

Next == New \/ Query \/ Apply

Spec == Init /\ [][Next]_vars

(* ---------------- the state machine of the joint planner ---------------- *)

MultiMaxTime == 2
MultiMaxSize == 2
MultiMaxLen == 2

MultiPoints ==
    {p \in Points : /\ p.time_required <= MultiMaxTime
                    /\ p.compressed_size <= MultiMaxSize}

\* The measurement lists of one document: none, the test's two, and every
\* list of 1..MultiMaxLen points of the smaller grid.
MultiMetricLists ==
    UNION {{l \in ListsOfLen(n) : \A i \in 1..n : l[i] \in MultiPoints}
           : n \in 1..MultiMaxLen}
        \cup {<<>>, paper_metrics, single_metrics}

\* The total budgets of the queries: the small ones, and those of the
\* examples on two documents with the test's measurements.
TotalBudgets == 0..(2 * MultiMaxTime + 1) \cup {15, 20, 21}

\* One document or two.
MultiInit ==
    /\ \/ \E a \in MultiMetricLists : workloads_metrics = <<a>>
       \/ \E a \in MultiMetricLists, b \in MultiMetricLists :
              workloads_metrics = <<a, b>>
    /\ setup_combinations = <<>>
    /\ lower_convex_hull_per_workload = <<>>
    /\ total_time_budget = 0
    /\ optimal_mixes = NoMixes
    /\ pc = "new_multiple"
    /\ algorithm_metrics = <<>>
    /\ lower_convex_hull = <<>>
    /\ workload = NewWorkload
    /\ mix = NoMix

\* MixingPolicyMultipleWorkloads::new.  build_polygonal_chain panics on an
\* empty list; the u64 subtractions of lines 280 and 61 panic on overflow in
\* a build with overflow checks and wrap in one without; the sign of the NaN
\* of a 0.0 / 0.0 is not specified.
NewMultiple ==
    /\ pc = "new_multiple"
    /\ IF \E i \in DOMAIN workloads_metrics : Len(workloads_metrics[i]) < 1
       THEN /\ pc' = "panicked_multiple"
            /\ UNCHANGED <<setup_combinations, lower_convex_hull_per_workload>>
       ELSE LET raw_workload_lchs ==
                    [i \in DOMAIN workloads_metrics |->
                        build_polygonal_chain(workloads_metrics[i])]
            IN \E nan_sign \in {0 - 1, 1} :
                 LET combinations ==
                         setup_combinations_of(raw_workload_lchs, nan_sign)
                 IN \/ /\ \/ \E i \in DOMAIN workloads_metrics :
                                 SubtractOverflows(
                                     lower_hull_points(workloads_metrics[i]))
                          \/ CombinationSubtractOverflows(combinations)
                       /\ pc' = "panicked_multiple"
                       /\ UNCHANGED <<setup_combinations,
                                      lower_convex_hull_per_workload>>
                    \/ /\ pc' = "built_multiple"
                       /\ setup_combinations' = combinations
                       /\ lower_convex_hull_per_workload' = raw_workload_lchs
    /\ UNCHANGED <<workloads_metrics, total_time_budget, optimal_mixes>>
    /\ UNCHANGED single_vars

\* mixing_policy.mix_with_total_time_budget(total_time_budget).
QueryMultiple ==
    /\ pc = "built_multiple"
    /\ \E budget \in TotalBudgets :
        /\ total_time_budget' = budget
        /\ optimal_mixes' = mix_with_total_time_budget(setup_combinations, budget)
    /\ pc' = "queried_multiple"
    /\ UNCHANGED <<workloads_metrics, setup_combinations,
                   lower_convex_hull_per_workload>>
    /\ UNCHANGED single_vars

MultiNext == NewMultiple \/ QueryMultiple

MultiSpec == MultiInit /\ [][MultiNext]_vars

\* Both planners: a run is one of process_single_document and
\* process_multiple_documents.
PlannerInit == Init \/ MultiInit

PlannerNext == Next \/ MultiNext

PlannerSpec == PlannerInit /\ [][PlannerNext]_vars

(* ---------------- properties ---------------- *)

\* MixingPolicy::new has returned a hull.
HullBuilt == pc \in {"built", "queried", "applied"}

\* optimal_mix has returned.
Queried == pc \in {"queried", "applied"}

HullPoint(i) == lower_convex_hull[i].m
HullBenefit(i) == lower_convex_hull[i].benefit

\* C1: along the hull of any non-empty list of measurements, in its stored
\* order, every point has a strictly smaller compressed size than the point
\* before it.
C1_HullSizesStrictlyDecrease ==
    HullBuilt =>
        \A i \in windows(lower_convex_hull, 2) :
            HullPoint(i + 1).compressed_size < HullPoint(i).compressed_size

\* C2: the benefits of the hull points after the first strictly decrease
\* along the hull, and each of them is non-negative.
C2_BenefitsStrictlyDecrease ==
    HullBuilt =>
        /\ \A k \in 2..(Len(lower_convex_hull) - 1) :
               F64Less(HullBenefit(k + 1), HullBenefit(k))
        /\ \A k \in 2..Len(lower_convex_hull) : F64NonNegative(HullBenefit(k))

OnHull(m) == \E i \in 1..Len(lower_convex_hull) : eq(HullPoint(i), m)

\* Some hull point is at least as fast and at least as small as m.
DominatedByPoint(m) ==
    \E i \in 1..Len(lower_convex_hull) :
        /\ HullPoint(i).time_required <= m.time_required
        /\ HullPoint(i).compressed_size <= m.compressed_size

\* m lies on or above the segment from a to b, whose durations bracket m's.
OnOrAboveSegment(m, a, b) ==
    /\ a.time_required < b.time_required
    /\ a.time_required <= m.time_required
    /\ m.time_required <= b.time_required
    /\ (m.compressed_size - a.compressed_size) * (b.time_required - a.time_required)
         >= (b.compressed_size - a.compressed_size) * (m.time_required - a.time_required)

DominatedBySegment(m) ==
    \E i, j \in 1..Len(lower_convex_hull) :
        OnOrAboveSegment(m, HullPoint(i), HullPoint(j))

\* C3: every input measurement that is not a hull point is weakly dominated,
\* by one hull point or by the segment joining two of them.
C3_HullMinimality ==
    HullBuilt =>
        \A n \in 1..Len(algorithm_metrics) :
            LET m == algorithm_metrics[n]
            IN OnHull(m) \/ DominatedByPoint(m) \/ DominatedBySegment(m)

\* Another measurement of the list: a different point.
Others(m) ==
    {algorithm_metrics[n] : n \in 1..Len(algorithm_metrics)} \ {m}

\* m lies strictly above the segment joining two other measurements whose
\* durations bracket m's, or right above another measurement.
StrictlyAboveOthers(m) ==
    \/ \E a, b \in Others(m) :
          /\ a.time_required < b.time_required
          /\ a.time_required <= m.time_required
          /\ m.time_required <= b.time_required
          /\ (m.compressed_size - a.compressed_size) * (b.time_required - a.time_required)
               > (b.compressed_size - a.compressed_size) * (m.time_required - a.time_required)
    \/ \E a \in Others(m) :
          /\ a.time_required = m.time_required
          /\ a.compressed_size < m.compressed_size

\* the expected hull of tests::paper_polygonal_chain, lines 408-414.
expected_algorithm_metrics ==
    << AlgorithmMetrics(2, 1000000), AlgorithmMetrics(4, 800000),
       AlgorithmMetrics(6, 600000), AlgorithmMetrics(8, 400000),
       AlgorithmMetrics(10, 300000) >>

HullPoints == [i \in 1..Len(lower_convex_hull) |-> HullPoint(i)]

\* C4: the hull is, in ascending duration, exactly the measurements on the
\* lower convex boundary between its fastest and its slowest point: a
\* measurement in that range is a hull point iff it does not lie strictly
\* above the segment joining two other measurements; and the hull of the
\* reference input is the expected one.
C4_HullIsLowerBoundary ==
    HullBuilt =>
        /\ \A i \in windows(lower_convex_hull, 2) :
               HullPoint(i).time_required <= HullPoint(i + 1).time_required
        /\ \A n \in 1..Len(algorithm_metrics) :
               LET m == algorithm_metrics[n]
               IN (/\ HullPoint(1).time_required <= m.time_required
                   /\ m.time_required <= Last(lower_convex_hull).m.time_required)
                  => (OnHull(m) <=> ~StrictlyAboveOthers(m))
        /\ (algorithm_metrics = paper_metrics => HullPoints = expected_algorithm_metrics)

\* C5: every budget at or above the duration of the last hull point yields
\* Single at that point.
C5_SingleAtOrAboveLast ==
    (Queried /\ workload.time_budget >= Last(lower_convex_hull).m.time_required)
        => mix = Single(Last(lower_convex_hull).m)

\* C6: optimal_mix returns None iff the budget is strictly below the duration
\* of the first hull point; for the one-measurement input (2, 1000000) a
\* budget of 5 yields Single at that measurement and a budget of 1 None.
C6_NoneIffBelowFirst ==
    Queried =>
        /\ (mix = NoMix <=> workload.time_budget < HullPoint(1).time_required)
        /\ (algorithm_metrics = single_metrics /\ workload.time_budget = 5
              => mix = Single(AlgorithmMetrics(2, 1000000)))
        /\ (algorithm_metrics = single_metrics /\ workload.time_budget = 1
              => mix = NoMix)

\* The one-measurement input of C6 has been queried with a budget of 1.
C6_Witness ==
    /\ pc = "queried"
    /\ algorithm_metrics = single_metrics
    /\ workload.time_budget = 1
    /\ mix = NoMix

\* C7: a budget from the first hull point's duration up to, but not
\* reaching, the last one's yields a split of two adjacent hull points
\* (p(i+1), p(i)) whose durations bracket the budget, with the fraction
\* round(100 * (budget - p(i).duration) / (p(i+1).duration - p(i).duration))
\* hundredths; the reference hull at budget 7 splits (8, 400000) and
\* (6, 600000) at 0.50.
C7_SplitOfAdjacentPoints ==
    LET b == workload.time_budget
    IN (/\ Queried
        /\ HullPoint(1).time_required <= b
        /\ b < Last(lower_convex_hull).m.time_required)
       => /\ mix.kind = "Normal"
          /\ \E i \in windows(lower_convex_hull, 2) :
                /\ mix.metric_a = HullPoint(i + 1)
                /\ mix.metric_b = HullPoint(i)
                /\ HullPoint(i).time_required <= b
                /\ b <= HullPoint(i + 1).time_required
                /\ HullPoint(i).time_required < HullPoint(i + 1).time_required
                /\ ~mix.fraction.nan
                /\ mix.fraction.hundredths =
                     RoundHalfAway(100 * (b - HullPoint(i).time_required),
                                   HullPoint(i + 1).time_required
                                     - HullPoint(i).time_required)
          /\ (algorithm_metrics = paper_metrics /\ b = 7
                => mix = Normal(AlgorithmMetrics(8, 400000),
                                AlgorithmMetrics(6, 600000),
                                [nan |-> FALSE, hundredths |-> 50]))

\* b is input_len * f rounded to the nearest integer (halves upwards), f
\* being h hundredths; a NaN fraction gives 0.
IsPartition(b, len, fraction) ==
    IF fraction.nan THEN b = 0
    ELSE /\ 200 * b - 2 * len * fraction.hundredths > 0 - 100
         /\ 200 * b - 2 * len * fraction.hundredths <= 100

\* A split plan has been executed.
SplitApplied == pc = "applied" /\ mix.kind = "Normal"

PlannedDuration100 ==
    IF mix.kind = "Single" THEN 100 * mix.metrics.time_required
    ELSE LET h == IF mix.fraction.nan THEN 0 ELSE mix.fraction.hundredths
         IN h * mix.metric_a.time_required
            + (100 - h) * mix.metric_b.time_required

PlannedSize100 ==
    IF mix.kind = "Single" THEN 100 * mix.metrics.compressed_size
    ELSE LET h == IF mix.fraction.nan THEN 0 ELSE mix.fraction.hundredths
         IN h * mix.metric_a.compressed_size
            + (100 - h) * mix.metric_b.compressed_size

\* C9: the planned duration of every plan a query returns is at most the
\* budget of the query.
C9_PlanRespectsBudget ==
    (Queried /\ mix # NoMix) => PlannedDuration100 <= 100 * workload.time_budget

\* C10: the planned size of every plan is at most the size of any input
\* measurement whose duration is within the budget.
C10_PlanBeatsEveryAffordableMeasurement ==
    (Queried /\ mix # NoMix) =>
        \A n \in 1..Len(algorithm_metrics) :
            algorithm_metrics[n].time_required <= workload.time_budget
                => PlannedSize100 <= 100 * algorithm_metrics[n].compressed_size

(* ---------------- properties of the joint planner ---------------- *)

\* MixingPolicyMultipleWorkloads::new has returned a joint plan.
PlanBuilt == pc \in {"built_multiple", "queried_multiple"}

\* mix_with_total_time_budget has returned.
QueriedMultiple == pc = "queried_multiple"

\* The aggregate duration and size of entry i of the joint plan.
AggregateDuration(i) == SumTime(setup_combinations[i].setups)
AggregateSize(i) == SumSize(setup_combinations[i].setups)

\* One Single mix per document, at the document's slot in entry i.
SinglesOf(i) ==
    [d \in DOMAIN setup_combinations[i].setups |->
        Single(setup_combinations[i].setups[d].m)]

\* C11: for every total budget at or above the aggregate duration of the
\* last entry of the joint plan, the budget equal to it included, the query
\* returns one Single mix per document at the document's slot in the last
\* entry; two documents with the reference measurements and a budget of 20
\* get Single at (10, 300000) both.
C11_SinglesAtOrAboveLastCombination ==
    /\ (QueriedMultiple
          /\ total_time_budget >= AggregateDuration(Len(setup_combinations)))
        => optimal_mixes = SinglesOf(Len(setup_combinations))
    /\ (QueriedMultiple
          /\ workloads_metrics = <<paper_metrics, paper_metrics>>
          /\ total_time_budget = 20)
        => optimal_mixes = << Single(AlgorithmMetrics(10, 300000)),
                              Single(AlgorithmMetrics(10, 300000)) >>

\* The mixes C12 expects for a budget inside the segment from entry i to
\* entry i + 1: a split of the two choices of the document the step
\* advanced, a Single mix at its slot for every other document.
SplitOfSegment(i, budget) ==
    LET cheap == setup_combinations[i].setups
        expensive == setup_combinations[i + 1].setups
        advanced == setup_combinations[i + 1].variation
        n == budget - AggregateDuration(i)
        d == AggregateDuration(i + 1) - AggregateDuration(i)
    IN [w \in DOMAIN cheap |->
           IF w = advanced
           THEN Normal(expensive[w].m, cheap[w].m,
                       [nan |-> FALSE, hundredths |-> RoundHalfAway(100 * n, d)])
           ELSE Single(cheap[w].m)]

\* C12: for a total budget with duration(Ji) <= budget < duration(Ji+1) the
\* query returns one mix per document in document order, exactly one of
\* them a split: the document the step advanced gets a split of its Ji+1
\* choice (expensive) and its Ji choice (cheap) with the fraction
\* round(100 * (budget - duration(Ji)) / (duration(Ji+1) - duration(Ji)))
\* hundredths, every other document a Single mix at its slot; for any
\* measurement lists, a document with one measurement included.
C12_OneSplitPerSegment ==
    QueriedMultiple =>
        \A i \in windows(setup_combinations, 2) :
            (/\ AggregateDuration(i) <= total_time_budget
             /\ total_time_budget < AggregateDuration(i + 1))
                => optimal_mixes = SplitOfSegment(i, total_time_budget)

\* 100 times the planned duration and size of one mix (as PlannedDuration100
\* and PlannedSize100 of the single-document plan).
MixDuration100(m) ==
    IF m.kind = "Single" THEN 100 * m.metrics.time_required
    ELSE LET h == IF m.fraction.nan THEN 0 ELSE m.fraction.hundredths
         IN h * m.metric_a.time_required + (100 - h) * m.metric_b.time_required

MixSize100(m) ==
    IF m.kind = "Single" THEN 100 * m.metrics.compressed_size
    ELSE LET h == IF m.fraction.nan THEN 0 ELSE m.fraction.hundredths
         IN h * m.metric_a.compressed_size + (100 - h) * m.metric_b.compressed_size

\* The same of a plan for several documents.
RECURSIVE PlanDuration100(_)
PlanDuration100(mixes) ==
    IF mixes = <<>> THEN 0
    ELSE MixDuration100(mixes[1]) + PlanDuration100(Tail(mixes))

RECURSIVE PlanSize100(_)
PlanSize100(mixes) ==
    IF mixes = <<>> THEN 0
    ELSE MixSize100(mixes[1]) + PlanSize100(Tail(mixes))

\* Two documents with the reference measurements have been queried with a
\* total budget of 15.
TwoReferenceDocumentsAt15 ==
    /\ QueriedMultiple
    /\ workloads_metrics = <<paper_metrics, paper_metrics>>
    /\ total_time_budget = 15

C14_JointPlanMonotone ==
    PlanBuilt =>
        \A i \in windows(setup_combinations, 2) :
            /\ AggregateDuration(i) < AggregateDuration(i + 1)
            /\ AggregateSize(i) > AggregateSize(i + 1)

\* Document w moves from one index of its own hull to the next between
\* entries i and i + 1 of the joint plan.
AdvancesOneIndex(w, i) ==
    \E k \in windows(lower_convex_hull_per_workload[w], 2) :
        /\ setup_combinations[i].setups[w] = lower_convex_hull_per_workload[w][k]
        /\ setup_combinations[i + 1].setups[w]
             = lower_convex_hull_per_workload[w][k + 1]

\* The slot of document w differs between entries i and i + 1, by the
\* comparison the query makes of two slots (line 118).
SlotDiffers(w, i) ==
    ~SetupEq(setup_combinations[i].setups[w], setup_combinations[i + 1].setups[w])

IsHundredth(fraction) == ~fraction.nan /\ fraction.hundredths \in 0..100

\* C16: every split mix that optimal_mix or mix_with_total_time_budget
\* returns has a fraction that is one of 0.00, 0.01, ..., 1.00, for every
\* hull, one built from a single measurement or with two adjacent points of
\* equal duration included.
C16_FractionIsHundredth ==
    /\ (Queried /\ mix.kind = "Normal") => IsHundredth(mix.fraction)
    /\ QueriedMultiple =>
          \A w \in DOMAIN optimal_mixes :
              optimal_mixes[w].kind = "Normal"
                  => IsHundredth(optimal_mixes[w].fraction)

C18_PlannedSizeMonotoneInBudget ==
    /\ pc = "built" =>
          \A b1 \in Budgets, b2 \in Budgets :
              LET mix1 == optimal_mix(lower_convex_hull, b1)
                  mix2 == optimal_mix(lower_convex_hull, b2)
              IN (b1 <= b2 /\ mix1 # NoMix /\ mix2 # NoMix)
                     => MixSize100(mix2) <= MixSize100(mix1)
    /\ pc = "built_multiple" =>
          \A b1 \in TotalBudgets, b2 \in TotalBudgets :
              LET mixes1 == mix_with_total_time_budget(setup_combinations, b1)
                  mixes2 == mix_with_total_time_budget(setup_combinations, b2)
              IN (b1 <= b2 /\ mixes1 # NoMixes /\ mixes2 # NoMixes)
                     => PlanSize100(mixes2) <= PlanSize100(mixes1)

C20_EmptyListAborts ==
    /\ (pc \in {"built", "queried", "applied", "panicked"}
          /\ algorithm_metrics = <<>>)
        => (pc = "panicked" /\ lower_convex_hull = <<>>)
    /\ (pc \in {"built_multiple", "queried_multiple", "panicked_multiple"}
          /\ \E w \in DOMAIN workloads_metrics : workloads_metrics[w] = <<>>)
        => (pc = "panicked_multiple" /\ setup_combinations = <<>>)

\* MixingPolicyMultipleWorkloads::new has aborted on two documents, the
\* second of them without measurements.
C20_Witness ==
    /\ pc = "panicked_multiple"
    /\ workloads_metrics = <<paper_metrics, <<>>>>

(* ---------------- the executor with failing codec calls ---------------- *)

\* apply_optimal_mix on a split plan, one of whose two codec calls fails:
\* the expect on read_exact or write_all, or the unwrap on finish, of
\* execute_with_target (gzip.rs 141-147) panics.  failed is the call that
\* fails.  Nothing truncates the result file: it keeps the stream of the
\* call that completed before (the bytes the failing call itself had
\* written by then are left out here).
ApplyPanics ==
    /\ pc = "queried"
    /\ mix.kind = "Normal"
    /\ \E len \in 0..MaxDataLen, failed \in {1, 2} :
        LET w == [workload EXCEPT !.data_len = len]
            partition == workload_partition(len, mix.fraction)
        IN workload' =
             IF failed = 1 THEN w
             ELSE execute_with_target(mix.metric_a, w, partition, TRUE)
    /\ pc' = "apply_panicked"
    /\ UNCHANGED <<algorithm_metrics, lower_convex_hull, mix>>
    /\ UNCHANGED multiple_vars

ExecutorNext == Next \/ ApplyPanics

ExecutorSpec == Init /\ [][ExecutorNext]_vars

\* C21: when a split plan is executed and one of the two codec calls fails,
\* the failure is reported and the result file holds no partial output
\* afterwards: what the first call wrote is discarded.
C21_NoPartialOutputAfterFailure ==
    pc = "apply_panicked" => workload.result_file = <<>>


\* C22: the first entry of the joint plan has benefit 0 and every later
\* entry, the first advance included, has the benefit
\* (aggregate size before - aggregate size after)
\*   / (aggregate duration after - aggregate duration before),
\* the subtraction not having wrapped around.
C22_JointBenefitWithoutUnderflow ==
    PlanBuilt =>
        /\ setup_combinations[1].benefit = F64Zero
        /\ \A k \in windows(setup_combinations, 2) :
               setup_combinations[k + 1].benefit =
                   F64Quot(0, AggregateSize(k) - AggregateSize(k + 1),
                           AggregateDuration(k + 1) - AggregateDuration(k))


\* The tuples that pick one hull point per document: t[d] is an index into
\* the hull of document d.
HullTuples ==
    LET longest == CHOOSE n \in {Len(lower_convex_hull_per_workload[d]) :
                                    d \in DOMAIN lower_convex_hull_per_workload} :
                       \A d \in DOMAIN lower_convex_hull_per_workload :
                           Len(lower_convex_hull_per_workload[d]) <= n
    IN {t \in [DOMAIN lower_convex_hull_per_workload -> 1..longest] :
           \A d \in DOMAIN lower_convex_hull_per_workload :
               t[d] <= Len(lower_convex_hull_per_workload[d])}

\* The joint configuration of a tuple.
TupleSetups(t) ==
    [d \in DOMAIN lower_convex_hull_per_workload |->
        lower_convex_hull_per_workload[d][t[d]]]

\* C23: every entry of the joint plan is Pareto-optimal among the joint
\* configurations: a tuple of one hull point per document whose aggregate
\* duration is at most the entry's has an aggregate size at least the
\* entry's.
C23_JointEntriesParetoOptimal ==
    PlanBuilt =>
        \A k \in DOMAIN setup_combinations :
            \A t \in HullTuples :
                SumTime(TupleSetups(t)) <= AggregateDuration(k)
                    => SumSize(TupleSetups(t)) >= AggregateSize(k)


\* The points handed to convex_hull_graham (line 239) and what it returns.
hull_input == polygonal_chain(sort(algorithm_metrics))
convex_hull == convex_hull_graham(hull_input)

\* p lies on the boundary of the convex hull of pts: some line through p and
\* another point of pts has all of pts on one side.
OnBoundary(p, pts) ==
    \/ \A i \in DOMAIN pts : pts[i] = p
    \/ \E i \in DOMAIN pts :
        /\ pts[i] # p
        /\ \/ \A j \in DOMAIN pts :
                  calc_z_coord_vector_product(p, pts[i], pts[j]) >= 0
           \/ \A j \in DOMAIN pts :
                  calc_z_coord_vector_product(p, pts[i], pts[j]) <= 0

\* m lies on the closed segment from a to b.
OnSegment(m, a, b) ==
    /\ calc_z_coord_vector_product(a, b, m) = 0
    /\ (x(a) <= x(m) /\ x(m) <= x(b)) \/ (x(b) <= x(m) /\ x(m) <= x(a))
    /\ (y(a) <= y(m) /\ y(m) <= y(b)) \/ (y(b) <= y(m) /\ y(m) <= y(a))

\* convex_hull_graham returns every point of its input that lies on the
\* boundary of the convex hull.
GrahamKeepsBoundaryPoints ==
    \A i \in DOMAIN hull_input :
        OnBoundary(hull_input[i], hull_input)
            => \E j \in DOMAIN convex_hull : convex_hull[j] = hull_input[i]

\* Every measurement on a segment of the returned hull is a hull point.
HullKeepsSegmentPoints ==
    \A n \in DOMAIN algorithm_metrics :
        (\E i \in windows(lower_convex_hull, 2) :
            OnSegment(algorithm_metrics[n], HullPoint(i), HullPoint(i + 1)))
        => \E j \in DOMAIN lower_convex_hull :
               HullPoint(j) = algorithm_metrics[n]

\* C24: convex_hull_graham keeps every input point on the boundary of the
\* convex hull, the points collinear with two hull vertices on any edge
\* included, also on the edge that ends at the pivot; so every measurement
\* lying exactly on a lower-hull segment is in the hull that
\* build_polygonal_chain returns.
C24_CollinearBoundaryPointsKept ==
    HullBuilt => GrahamKeepsBoundaryPoints /\ HullKeepsSegmentPoints


\* b is len * fraction rounded to the nearest integer, exact halves to the
\* even one (0 for a NaN fraction).
IsPartitionHalfEven(b, len, fraction) ==
    IF fraction.nan THEN b = 0
    ELSE /\ 200 * b - 2 * len * fraction.hundredths >= 0 - 100
         /\ 200 * b - 2 * len * fraction.hundredths <= 100
         /\ (200 * b - 2 * len * fraction.hundredths) \in {0 - 100, 100}
                => b % 2 = 0

\* The fraction h / 100.
Hundredths(h) == [nan |-> FALSE, hundredths |-> h]

MaxPngLen == 2
MaxDim == 2

\* png.rs 205: 0x89 "MIXPNG" 0x0D 0x0A 0x1A 0x0A.
MixPngSignature == <<137, 77, 73, 88, 80, 78, 71, 13, 10, 26, 10>>

\* The signature every PNG stream starts with.
PngSignature == <<137, 80, 78, 71, 13, 10, 26, 10>>

\* u64::to_be_bytes (n = 8) and u32::to_be_bytes (n = 4): the n base-256
\* digits of v, the most significant one first.
RECURSIVE to_be_bytes(_, _)
to_be_bytes(v, n) ==
    IF n = 0 THEN <<>> ELSE Append(to_be_bytes(v \div 256, n - 1), v % 256)

\* u64::from_be_bytes and u32::from_be_bytes.
RECURSIVE from_be_bytes(_)
from_be_bytes(b) ==
    IF b = <<>> THEN 0
    ELSE 256 * from_be_bytes(SubSeq(b, 1, Len(b) - 1)) + Last(b)

\* A file: its bytes and its position.  File::write at the position
\* overwrites what is there, extends the file past its end, and advances the
\* position (the writes here are few bytes on a regular file and complete).
FileWrite(f, buf) ==
    LET end == f.pos + Len(buf)
        len == IF end > Len(f.bytes) THEN end ELSE Len(f.bytes)
    IN [bytes |-> [i \in 1..len |->
                      IF i > f.pos /\ i <= end THEN buf[i - f.pos]
                      ELSE IF i <= Len(f.bytes) THEN f.bytes[i] ELSE 0],
        pos |-> end]

\* File::seek(SeekFrom::Start(p)).
FileSeek(f, p) == [f EXCEPT !.pos = p]

\* png.rs 188-194: the height of the part of the image one call encodes.
mixed_height(original_height, partition, data_len, first_half) ==
    IF first_half THEN RoundHalfAway(original_height * partition, data_len)
    ELSE RoundHalfAway(original_height * (data_len - partition), data_len)

\* What PngEncoder::write_image writes: the PNG signature, the width and the
\* height of the header chunk, and n bytes of compressed image data.
PngStream(width, height, n) ==
    PngSignature \o to_be_bytes(width, 4) \o to_be_bytes(height, 4)
        \o [i \in 1..n |-> 0]

\* PNG::execute_with_target taking the index of the header fields 8 bytes
\* before the position, not 16.
PNG_execute_with_target_IndexOff(w, partition, first_half, n) ==
    LET custom_header ==
            IF first_half THEN MixPngSignature \o [i \in 1..16 |-> 0]
            ELSE MixPngSignature
        header_written == FileWrite(w.result_file, custom_header)
        partition_index == header_written.pos - 8
        image_written ==
            FileWrite(header_written,
                PngStream(w.image.width,
                    mixed_height(w.image.height, partition, w.data_len,
                                 first_half), n))
        next_image_index == image_written.pos
        fields == to_be_bytes(next_image_index, 8)
                      \o to_be_bytes(w.image.width, 4)
                      \o to_be_bytes(w.image.height, 4)
    IN [w EXCEPT !.result_file =
                    IF first_half
                    THEN FileSeek(FileWrite(FileSeek(image_written,
                                                     partition_index), fields),
                                  next_image_index)
                    ELSE image_written,
                 !.data_pos = 0]

\* png.rs 169-227, a call that returns: the custom header (the signature,
\* and in the first half 16 bytes of room), the PNG stream of the part, and
\* in the first half the three fields written into the room, the position
\* put back after the stream; the input file is rewound.  n is the length
\* of the compressed image data.
PNG_execute_with_target(w, partition, first_half, n) ==
    LET custom_header ==
            IF first_half THEN MixPngSignature \o [i \in 1..16 |-> 0]
            ELSE MixPngSignature
        header_written == FileWrite(w.result_file, custom_header)
        partition_index == header_written.pos - 16
        image_written ==
            FileWrite(header_written,
                PngStream(w.image.width,
                    mixed_height(w.image.height, partition, w.data_len,
                                 first_half), n))
        next_image_index == image_written.pos
        fields == to_be_bytes(next_image_index, 8)
                      \o to_be_bytes(w.image.width, 4)
                      \o to_be_bytes(w.image.height, 4)
    IN [w EXCEPT !.result_file =
                    IF first_half
                    THEN FileSeek(FileWrite(FileSeek(image_written,
                                                     partition_index), fields),
                                  next_image_index)
                    ELSE image_written,
                 !.data_pos = 0]

\* main.rs 150-157: the decompressor reads the offset of the second image
\* and the original width and height after the 11 bytes of the signature.
decompress_partition(bytes) == from_be_bytes(SubSeq(bytes, 12, 19))
decompress_original_width(bytes) == from_be_bytes(SubSeq(bytes, 20, 23))
decompress_original_height(bytes) == from_be_bytes(SubSeq(bytes, 24, 27))

\* main.rs 169-173: it seeks to the offset, reads 11 bytes and compares them
\* with the signature.
decompress_second_header(bytes) ==
    SubSeq(bytes, decompress_partition(bytes) + 1,
           decompress_partition(bytes) + 11)

(* ---------------- the state machine of a split PNG ---------------- *)

\* The fractions of the split plans of the PNG workload.
PngFractions == {0, 25, 50, 75, 100}

\* A PNG workload (main.rs 226-230) with an empty result file and a split
\* plan for it: the input is a PNG file of data_len bytes holding an image
\* of the given width and height.
PngInit ==
    /\ \E width \in 1..MaxDim, height \in 1..MaxDim, len \in 1..MaxDataLen :
        workload = [data_len |-> len, data_pos |-> 0, time_budget |-> 0,
                    image |-> [width |-> width, height |-> height],
                    result_file |-> [bytes |-> <<>>, pos |-> 0]]
    /\ \E h \in PngFractions :
        mix = Normal(AlgorithmMetrics(2, 1), AlgorithmMetrics(1, 2),
                     Hundredths(h))
    /\ pc = "png_queried"
    /\ algorithm_metrics = <<>>
    /\ lower_convex_hull = <<>>
    /\ workloads_metrics = <<>>
    /\ setup_combinations = <<>>
    /\ lower_convex_hull_per_workload = <<>>
    /\ total_time_budget = 0
    /\ optimal_mixes = NoMixes

\* apply_optimal_mix, line 337: metric_a's execute_with_target(workload,
\* workload_partition, true).  The call returns, or one of its expects
\* panics (decoding the input, encoding a part of height 0, writing).
PngFirstHalf ==
    /\ pc = "png_queried"
    /\ \/ /\ workload.data_pos = 0
          /\ \E n \in 1..MaxPngLen :
                workload' = PNG_execute_with_target(workload,
                    workload_partition(workload.data_len, mix.fraction),
                    TRUE, n)
          /\ pc' = "png_first_half"
       \/ /\ pc' = "png_panicked"
          /\ UNCHANGED workload
    /\ UNCHANGED <<algorithm_metrics, lower_convex_hull, mix>>
    /\ UNCHANGED multiple_vars

\* apply_optimal_mix, line 339: metric_b's execute_with_target(workload,
\* workload_partition, false).
PngSecondHalf ==
    /\ pc = "png_first_half"
    /\ \/ /\ workload.data_pos = 0
          /\ \E n \in 1..MaxPngLen :
                workload' = PNG_execute_with_target(workload,
                    workload_partition(workload.data_len, mix.fraction),
                    FALSE, n)
          /\ pc' = "png_applied"
       \/ /\ pc' = "png_panicked"
          /\ UNCHANGED workload
    /\ UNCHANGED <<algorithm_metrics, lower_convex_hull, mix>>
    /\ UNCHANGED multiple_vars

PngNext == PngFirstHalf \/ PngSecondHalf

PngSpec == PngInit /\ [][PngNext]_vars

\* C26: after the first-half call and the second-half call on an empty
\* result file, the file starts with the 11 bytes of the MIXPNG signature,
\* bytes 11..19 hold, big-endian, the offset at which the second call
\* started writing, bytes 19..23 and 23..27 the original width and height,
\* the first PNG stream starts at offset 27, and the output of the second
\* call starts at the stored offset, where the decompressor seeks and finds
\* the signature.
C26_MixedPngHeaderLayout ==
    /\ [](pc \in {"png_first_half", "png_applied"} =>
            /\ SubSeq(workload.result_file.bytes, 1, 11) = MixPngSignature
            /\ decompress_original_width(workload.result_file.bytes)
                   = workload.image.width
            /\ decompress_original_height(workload.result_file.bytes)
                   = workload.image.height
            /\ SubSeq(workload.result_file.bytes, 28, 35) = PngSignature
            /\ pc = "png_first_half" =>
                   /\ decompress_partition(workload.result_file.bytes)
                          = workload.result_file.pos
                   /\ workload.result_file.pos
                          = Len(workload.result_file.bytes)
            /\ pc = "png_applied" =>
                   /\ decompress_second_header(workload.result_file.bytes)
                          = MixPngSignature
                   /\ SubSeq(workload.result_file.bytes,
                             decompress_partition(workload.result_file.bytes) + 12,
                             decompress_partition(workload.result_file.bytes) + 19)
                          = PngSignature)
    /\ [][(pc = "png_first_half" /\ pc' = "png_applied") =>
            /\ decompress_partition(workload'.result_file.bytes)
                   = workload.result_file.pos
            /\ SubSeq(workload'.result_file.bytes, 1, workload.result_file.pos)
                   = workload.result_file.bytes
            /\ Len(workload'.result_file.bytes) > workload.result_file.pos + 11
         ]_vars

\* Both calls have returned, the image is not square, and the two streams
\* have different lengths.
C26_Witness ==
    /\ pc = "png_applied"
    /\ workload.image.width # workload.image.height
    /\ decompress_partition(workload.result_file.bytes) = 27 + 16 + MaxPngLen
    /\ Len(workload.result_file.bytes) = 27 + 16 + MaxPngLen + 11 + 16 + 1


\* C27: the hull of exactly one measurement p is the one point p with
\* benefit 0; no hull holds the same measurement twice, and every benefit
\* of a hull is a finite number, never NaN.
C27_SingleMeasurementHull ==
    HullBuilt =>
        /\ Len(algorithm_metrics) = 1 =>
               lower_convex_hull =
                   <<[m |-> algorithm_metrics[1], benefit |-> F64Zero]>>
        /\ \A i \in DOMAIN lower_convex_hull, j \in DOMAIN lower_convex_hull :
               i # j => ~eq(HullPoint(i), HullPoint(j))
        /\ \A i \in DOMAIN lower_convex_hull : IsFinite(HullBenefit(i))

\* C28: in every hull adjacent points have strictly increasing durations,
\* also when the two fastest measurements have the same duration, so the
\* divisor of every benefit is strictly positive and every benefit is
\* finite.
C28_HullDurationsStrictlyIncrease ==
    HullBuilt =>
        /\ \A i \in windows(lower_convex_hull, 2) :
               HullPoint(i).time_required < HullPoint(i + 1).time_required
        /\ \A i \in windows(lower_convex_hull, 2) :
               HullBenefit(i + 1).den > 0 /\ IsFinite(HullBenefit(i + 1))


(* ---------------- measuring the codecs, then executing ---------------- *)

\* The compression levels measured one after another on the same workload
\* (main.rs 293-307 measures the levels 1..=9).
MaxLevels == 2

\* The byte codecs of main.rs 293-308.
Codecs == {"gzip", "bzip2", "xz2"}

\* The read position execute_on_tmp(w, None) reads from: Bzip2 seeks to the
\* start of the block (bzip2.rs 110), Gzip and Xz2 read on from where the
\* position is.
execute_on_tmp_start(codec, w) == IF codec = "bzip2" THEN 0 ELSE w.data_pos

\* read_exact fails, and its expect panics, when the loop has bytes to read
\* and the file has fewer than data_len of them from the position on.
execute_on_tmp_panics(codec, w) ==
    w.data_len > 0 /\ execute_on_tmp_start(codec, w) + w.data_len > w.data_len

\* execute_on_tmp(w, None) of Gzip (gzip.rs 101-123), Bzip2 (bzip2.rs
\* 100-124) and Xz2 (xz2.rs 100-121), a call that returns: data_len bytes
\* are read; Gzip and Bzip2 rewind the input, Xz2 does not.
execute_on_tmp(codec, w) ==
    [w EXCEPT !.data_pos =
        IF codec = "xz2" THEN execute_on_tmp_start(codec, w) + w.data_len
        ELSE 0]

\* read_exact of execute (gzip.rs 90, bzip2.rs 89, xz2.rs 89) fails: the
\* loop reads data_len bytes from the position on.
execute_panics(w) == w.data_len > 0 /\ w.data_pos + w.data_len > w.data_len

\* read_exact of the first execute_with_target call fails: it reads
\* partition bytes from the position on.
execute_with_target_panics(w, partition) ==
    partition > 0 /\ w.data_pos + partition > w.data_len

\* main.rs 288-291: Workload::new for a file of any length, named after the
\* codec; no algorithm measured yet.
MeasureInit ==
    /\ \E codec \in Codecs, len \in 0..MaxDataLen :
        workload = [name |-> codec, data_len |-> len, data_pos |-> 0,
                    time_budget |-> 0, result_file |-> <<>>]
    /\ algorithm_metrics = <<>>
    /\ pc = "measuring"
    /\ lower_convex_hull = <<>>
    /\ mix = NoMix
    /\ workloads_metrics = <<>>
    /\ setup_combinations = <<>>
    /\ lower_convex_hull_per_workload = <<>>
    /\ total_time_budget = 0
    /\ optimal_mixes = NoMixes

\* algorithms.push(Box::new(Gzip::new(&mut workload, level, None))) and the
\* same for Bzip2 and Xz2: new calls calculate_metrics, which calls
\* execute_on_tmp(workload, None) and keeps the size and the duration it
\* measured.
Measure ==
    /\ pc = "measuring"
    /\ Len(algorithm_metrics) < MaxLevels
    /\ IF execute_on_tmp_panics(workload.name, workload)
       THEN /\ pc' = "read_panicked"
            /\ UNCHANGED <<algorithm_metrics, workload>>
       ELSE /\ \E m \in MultiPoints :
                algorithm_metrics' = Append(algorithm_metrics, m)
            /\ workload' = execute_on_tmp(workload.name, workload)
            /\ pc' = "measuring"
    /\ UNCHANGED <<lower_convex_hull, mix>>
    /\ UNCHANGED multiple_vars

\* apply_optimal_mix of a Single plan at one of the measured algorithms.
ExecuteSingle ==
    /\ pc = "measuring"
    /\ \E i \in DOMAIN algorithm_metrics :
        /\ mix' = Single(algorithm_metrics[i])
        /\ IF execute_panics(workload)
           THEN /\ pc' = "read_panicked"
                /\ UNCHANGED workload
           ELSE /\ pc' = "executed"
                /\ workload' = apply_optimal_mix(mix', workload)
    /\ UNCHANGED <<algorithm_metrics, lower_convex_hull>>
    /\ UNCHANGED multiple_vars

\* apply_optimal_mix of a split plan of two of the measured algorithms.
ExecuteSplit ==
    /\ pc = "measuring"
    /\ \E i \in DOMAIN algorithm_metrics, j \in DOMAIN algorithm_metrics :
       \E h \in PngFractions :
        /\ mix' = Normal(algorithm_metrics[i], algorithm_metrics[j],
                         Hundredths(h))
        /\ IF execute_with_target_panics(workload,
                  workload_partition(workload.data_len, Hundredths(h)))
           THEN /\ pc' = "read_panicked"
                /\ UNCHANGED workload
           ELSE /\ pc' = "executed"
                /\ workload' = apply_optimal_mix(mix', workload)
    /\ UNCHANGED <<algorithm_metrics, lower_convex_hull>>
    /\ UNCHANGED multiple_vars

MeasureNext == Measure \/ ExecuteSingle \/ ExecuteSplit

MeasureSpec == MeasureInit /\ [][MeasureNext]_vars

\* C29: every operation of every byte codec that reads the input returns
\* with the read position of the input at offset 0, so after any sequence
\* of them on one workload (measuring the levels one after another, then
\* executing a plan) the next one reads the bytes it means to read.
C29_InputPositionBackAtZero ==
    /\ workload.data_pos = 0
    /\ pc # "read_panicked"


\* MixingPolicyMultipleWorkloads::new has been called on measurement lists
\* none of which is empty, and has ended.
NewMultipleEnded ==
    /\ pc \in {"built_multiple", "queried_multiple", "panicked_multiple"}
    /\ \A w \in DOMAIN workloads_metrics : Len(workloads_metrics[w]) >= 1

\* The points after the first in the hulls of the documents 1..n: the
\* lengths of the queues the merge loop starts with.
RECURSIVE QueuedPoints(_)
QueuedPoints(n) ==
    IF n = 0 THEN 0
    ELSE QueuedPoints(n - 1)
             + Len(build_polygonal_chain(workloads_metrics[n])) - 1

\* The entries of the joint plan that advanced document w.
AdvancesOf(w) ==
    {i \in DOMAIN setup_combinations : setup_combinations[i].variation = w}

\* C30: the merge loop always runs to its end: it makes exactly as many
\* advances as the documents' hulls have points after the first, each
\* advance taking one point from one document's queue, so the joint plan has
\* one entry more than that and every queue is empty at the end.
C30_MergeLoopRunsToCompletion ==
    NewMultipleEnded =>
        /\ PlanBuilt
        /\ Len(setup_combinations) = 1 + QueuedPoints(Len(workloads_metrics))
        /\ \A w \in DOMAIN workloads_metrics :
               Cardinality(AdvancesOf(w))
                   = Len(lower_convex_hull_per_workload[w]) - 1

====
